---- MODULE Spec2Model ----
(***************************************************************************)
(* A model of tinyraytracer.cpp: the main loop and its two quality knobs,  *)
(* render (frame assembly into the framebuffer, then the rectangle-run     *)
(* compressor), the recursion of cast_ray and the nearest-hit query        *)
(* scene_intersect.                                                        *)
(*                                                                         *)
(* Floating point is not available: a colour channel is an integer number  *)
(* of thousandths (0.2 is 200), a distance along a ray is an integer.      *)
(* The display is width x height pixels, scaled down from 1024 x 768 so   *)
(* that every scale of the main loop still leaves at least one column and  *)
(* one row.                                                                *)
(***************************************************************************)
EXTENDS Integers, Sequences, FiniteSets

VARIABLES
    scale, maxDepth, angle, pc,
    framebuffer, written, j, i,
    row, col, startIdx, oldStartIdx, currentColor, rowRects, lastRead,
    tj, ti,
    stack, ret,
    spheres, plane, permuted, res, resPerm

mainVars == <<scale, maxDepth, angle, pc>>
assembleVars == <<framebuffer, written, j, i>>
compressVars == <<row, col, startIdx, oldStartIdx, currentColor, rowRects, lastRead>>
parVars == <<tj, ti>>
castVars == <<stack, ret>>
sceneVars == <<spheres, plane, permuted, res, resPerm>>
vars == <<mainVars, assembleVars, compressVars, parVars, castVars, sceneVars>>

(***************************************************************************)
(* Dimensions and the knobs' ranges.                                       *)
(***************************************************************************)
width == 16
height == 16

MinScale == 1
MaxScale == 16
MinDepth == 1
MaxDepthKnob == 4
InitScale == 8
InitDepth == 4
AngleStep == 4
FullTurn == 360

Scales == {1, 2, 4, 8, 16}

(***************************************************************************)
(* Colours (Vec3f), in thousandths.                                        *)
(***************************************************************************)
\* Vec3f() is the zero vector (geometry.h)
Black == <<0, 0, 0>>
Background == <<200, 700, 800>>
GlassTint == <<201, 700, 800>>
IvoryLit == <<400, 400, 300>>
Highlight == <<1500, 1200, 900>>
TileWhite == <<300, 300, 300>>
TileOrange == <<300, 210, 90>>

Max2(a, b) == IF a > b THEN a ELSE b

\* float max = std::max(c[0], std::max(c[1], c[2]));
MaxChannel(c) == Max2(c[1], Max2(c[2], c[3]))

\* if (max > 1) c = c * (1. / max);
ToneMap(c) ==
    IF MaxChannel(c) > 1000
    THEN <<(c[1] * 1000) \div MaxChannel(c),
           (c[2] * 1000) \div MaxChannel(c),
           (c[3] * 1000) \div MaxChannel(c)>>
    ELSE c

\* { (unsigned char)(255 * c[0]), (unsigned char)(255 * c[1]), (unsigned char)(255 * c[2]), 255 }
Quantize(c) ==
    <<(255 * c[1]) \div 1000, (255 * c[2]) \div 1000, (255 * c[3]) \div 1000>>

(***************************************************************************)
(* The image of the scene.  cast_ray is a pure function of the scene and   *)
(* of the primary ray; the ray of pixel (i, j) goes through the centre of  *)
(* its block of scale x scale display pixels, and the scene of a frame is  *)
(* fixed by angle (sphere 0 orbits).  SceneColor gives the colour seen     *)
(* through display pixel (px, py): sky, an orbiting ivory sphere with a    *)
(* specular highlight brighter than 1, a glass sphere that shows the sky   *)
(* almost unchanged, and the checkerboard with the sphere's shadow.        *)
(***************************************************************************)
Abs(n) == IF n < 0 THEN -n ELSE n

\* spheres[0].center[0] = cos(angle * DEG2RAD) * 8, as a display column
SphereColumn(a) ==
    ((IF a <= 180 THEN 180 - a ELSE a - 180) * (width - 1)) \div 180

SceneColor(a, px, py) ==
    IF py >= (3 * height) \div 4
    THEN IF Abs(px - SphereColumn(a)) <= 1
         THEN Black
         ELSE IF ((px \div 2) + (py \div 2)) % 2 = 1 THEN TileWhite ELSE TileOrange
    ELSE IF py >= height \div 4 /\ px = SphereColumn(a)
    THEN Highlight
    ELSE IF py >= height \div 4 /\ Abs(px - SphereColumn(a)) <= 2
    THEN IvoryLit
    ELSE IF py >= height \div 4 /\ px >= width \div 2 /\ px < (3 * width) \div 4
    THEN GlassTint
    ELSE Background

\* x = (2 * (i + 0.5) / (width / scale) - 1) ..., y likewise; cast_ray(Vec3f(0,0,0), dir, ..., 0, maxDepth)
PixelColor(a, ii, jj, s) ==
    SceneColor(a, ii * s + s \div 2, jj * s + s \div 2)

(***************************************************************************)
(* render: the framebuffer.                                                *)
(***************************************************************************)
\* std::vector<Vec3f> framebuffer((width * height) / scale);
FbSize(s) == (width * height) \div s

Cols(s) == width \div s
Rows(s) == height \div s

NoFramebuffer == << >>
NoColor == << >>

\* framebuffer[i + j * width]; the variant drops the row stride
PixelIndexSkewed(ii, jj) == ii + jj
PixelIndex(ii, jj) == ii + jj * width

\* A read of framebuffer[idx]; outside the vector the behaviour is undefined
\* and the value read is any colour.
FbRead(idx) ==
    IF idx \in DOMAIN framebuffer
    THEN {framebuffer[idx]}
    ELSE {Black, Background}

\* A write of framebuffer[idx]; the vector itself keeps its size.
FbWrite(fb, idx, c) ==
    IF idx \in DOMAIN fb THEN [fb EXCEPT ![idx] = c] ELSE fb

(***************************************************************************)
(* main: one iteration of the loop up to the call of render.               *)
(***************************************************************************)
\* if (scale > 1 && IsKeyPressed(KEY_LEFT)) { scale /= 2; }
\* else if (scale < 16 && IsKeyPressed(KEY_RIGHT)) { scale *= 2; }
\* (the variant leaves out the tests of scale against 1 and 16)
ScaleAfterKeysUnclamped(s, left, right) ==
    IF left THEN s \div 2
    ELSE IF right THEN s * 2
    ELSE s
ScaleAfterKeys(s, left, right) ==
    IF s > MinScale /\ left THEN s \div 2
    ELSE IF s < MaxScale /\ right THEN s * 2
    ELSE s

\* if (maxDepth > 1 && IsKeyPressed(KEY_DOWN)) { maxDepth -= 1; }
\* else if (maxDepth < 4 && IsKeyPressed(KEY_UP)) { maxDepth += 1; }
DepthAfterKeys(d, down, up) ==
    IF d > MinDepth /\ down THEN d - 1
    ELSE IF d < MaxDepthKnob /\ up THEN d + 1
    ELSE d

RenderIdle ==
    /\ framebuffer = NoFramebuffer
    /\ written = {}
    /\ j = 0
    /\ i = 0
    /\ row = 0
    /\ col = 0
    /\ startIdx = 0
    /\ oldStartIdx = 0
    /\ currentColor = NoColor
    /\ rowRects = << >>
    /\ lastRead = -1

ParIdle ==
    /\ tj = << >>
    /\ ti = << >>

NoReturn == [depth |-> -1, color |-> "none", nIntersect |-> 0, nCalls |-> 0]

CastIdle ==
    /\ stack = << >>
    /\ ret = NoReturn

\* MMaterial() : refractive_index(1), albedo(1, 0, 0, 0), diffuse_color(), specular_exponent()
DefaultMaterial ==
    [refractive_index |-> 1000, albedo |-> <<1000, 0, 0, 0>>,
     diffuse_color |-> <<0, 0, 0>>, specular_exponent |-> 0]

\* Vec3f point, N; as cast_ray declares them
NoPoint == -1
NoNormal == [kind |-> "unset", center |-> 0, t |-> 0]

NoPlane == [steep |-> FALSE, d |-> 0, x |-> 0, z |-> 0]
NoResult ==
    [ret |-> FALSE, hit |-> NoPoint, N |-> NoNormal, material |-> DefaultMaterial,
     spheres_dist |-> 0, checkerboard_dist |-> 0]

SceneIdle ==
    /\ spheres = << >>
    /\ plane = NoPlane
    /\ permuted = << >>
    /\ res = NoResult
    /\ resPerm = NoResult

Init ==
    /\ scale = InitScale
    /\ maxDepth = InitDepth
    /\ angle = 0
    /\ pc = "update"
    /\ RenderIdle
    /\ ParIdle
    /\ CastIdle
    /\ SceneIdle

\* while (!WindowShouldClose()) { UPDATE ...; BeginDrawing(); ClearBackground(BLACK); render(...)
Update ==
    /\ pc = "update"
    /\ \E left \in BOOLEAN, right \in BOOLEAN, down \in BOOLEAN, up \in BOOLEAN :
        /\ scale' = ScaleAfterKeys(scale, left, right)
        /\ maxDepth' = DepthAfterKeys(maxDepth, down, up)
    /\ angle' = (angle + AngleStep) % FullTurn
    /\ pc' = "render"
    /\ UNCHANGED <<assembleVars, compressVars, parVars, castVars, sceneVars>>

\* WindowShouldClose() answers true: CloseWindow(); return 0;
Close ==
    /\ pc = "update"
    /\ pc' = "closed"
    /\ UNCHANGED <<scale, maxDepth, angle, assembleVars, compressVars, parVars,
                   castVars, sceneVars>>

(***************************************************************************)
(* render: frame assembly.                                                 *)
(***************************************************************************)
\* std::vector<Vec3f> framebuffer((width * height) / scale);  every slot Vec3f()
RenderEnter ==
    /\ pc = "render"
    /\ scale > 0
    /\ framebuffer' = [k \in 0 .. FbSize(scale) - 1 |-> Black]
    /\ written' = {}
    /\ j' = 0
    /\ i' = 0
    /\ pc' = "assemble"
    /\ UNCHANGED <<scale, maxDepth, angle, compressVars, parVars, castVars, sceneVars>>

\* (width * height) / 0: undefined; the division traps, or the build drops it
\* and the loops over height / scale rows with it.
RenderDivZero ==
    /\ pc = "render"
    /\ scale = 0
    /\ pc' \in {"trap", "update"}
    /\ UNCHANGED <<scale, maxDepth, angle, assembleVars, compressVars, parVars,
                   castVars, sceneVars>>

\* (width * height) / scale < 0 becomes a size_t above max_size():
\* the vector's constructor throws std::length_error, nothing catches it.
RenderBadAlloc ==
    /\ pc = "render"
    /\ scale < 0
    /\ pc' = "abort"
    /\ UNCHANGED <<scale, maxDepth, angle, assembleVars, compressVars, parVars,
                   castVars, sceneVars>>

\* for (j...) for (i...) framebuffer[i + j * width] = cast_ray(..., 0, maxDepth);
AssemblePixel ==
    /\ pc = "assemble"
    /\ j < Rows(scale)
    /\ i < Cols(scale)
    /\ framebuffer' = FbWrite(framebuffer, PixelIndex(i, j), PixelColor(angle, i, j, scale))
    /\ written' = written \cup {PixelIndex(i, j)}
    /\ IF i + 1 < Cols(scale)
       THEN i' = i + 1 /\ j' = j
       ELSE i' = 0 /\ j' = j + 1
    /\ UNCHANGED <<mainVars, compressVars, parVars, castVars, sceneVars>>

\* j == height / scale: the loop ends, the compressor's loop starts at row 0
AssembleDone ==
    /\ pc = "assemble"
    /\ ~(j < Rows(scale) /\ i < Cols(scale))
    /\ pc' = "compress"
    /\ row' = 0
    /\ UNCHANGED <<scale, maxDepth, angle, assembleVars, col, startIdx, oldStartIdx,
                   currentColor, rowRects, lastRead, parVars, castVars, sceneVars>>

(***************************************************************************)
(* render: the rectangle-run compressor.                                   *)
(***************************************************************************)
\* int startIdx = row * width; Vec3f currentColor = framebuffer[startIdx]; int oldStartIdx = startIdx;
CompressRowStart ==
    /\ pc = "compress"
    /\ row < Rows(scale)
    /\ startIdx' = row * width
    /\ oldStartIdx' = row * width
    /\ \E v \in FbRead(row * width) : currentColor' = v
    /\ lastRead' = row * width
    /\ col' = 0
    /\ rowRects' = << >>
    /\ pc' = "scan"
    /\ UNCHANGED <<scale, maxDepth, angle, assembleVars, row, parVars, castVars, sceneVars>>

\* bool endRow = col == (width / scale) - 1;
EndRow(c, s) == c = Cols(s) - 1

\* int x, y, rectWidth, rectHeight; DrawRectangle(x, y, rectWidth, rectHeight, {...})
Rectangle(start, c, s, color) ==
    [x |-> (start % width) * s,
     y |-> (start \div width) * s,
     w |-> (c - (start % Cols(s))) * s,
     h |-> s,
     color |-> Quantize(color)]

\* one iteration of: for (int col = 0; col <= width / scale; col++)
ScanCol ==
    /\ pc = "scan"
    /\ col <= Cols(scale)
    /\ \E v \in FbRead(oldStartIdx + col) :
        LET idx == oldStartIdx + col
            colorChange == v # currentColor
            emit == EndRow(col, scale) \/ colorChange
            toned == ToneMap(currentColor)
        IN  /\ rowRects' = IF emit
                           THEN Append(rowRects, Rectangle(startIdx, col, scale, toned))
                           ELSE rowRects
            /\ startIdx' = IF emit /\ colorChange THEN idx ELSE startIdx
            /\ currentColor' = IF emit
                               THEN (IF colorChange THEN v ELSE toned)
                               ELSE currentColor
            /\ lastRead' = idx
    /\ col' = col + 1
    /\ UNCHANGED <<mainVars, assembleVars, row, oldStartIdx, parVars, castVars, sceneVars>>

\* framebuffer[idx] past the end of the vector: instead of yielding a value,
\* the read may fault and end the program
ScanFault ==
    /\ pc = "scan"
    /\ col <= Cols(scale)
    /\ oldStartIdx + col \notin DOMAIN framebuffer
    /\ lastRead' = oldStartIdx + col
    /\ pc' = "trap"
    /\ UNCHANGED <<scale, maxDepth, angle, assembleVars, row, col, startIdx, oldStartIdx,
                   currentColor, rowRects, parVars, castVars, sceneVars>>

\* col > width / scale: the row is done
ScanDone ==
    /\ pc = "scan"
    /\ col > Cols(scale)
    /\ row' = row + 1
    /\ pc' = "compress"
    /\ UNCHANGED <<scale, maxDepth, angle, assembleVars, col, startIdx, oldStartIdx,
                   currentColor, rowRects, lastRead, parVars, castVars, sceneVars>>

\* row == height / scale: render returns, the framebuffer is destroyed; EndDrawing()
CompressDone ==
    /\ pc = "compress"
    /\ row >= Rows(scale)
    /\ pc' = "update"
    /\ framebuffer' = NoFramebuffer
    /\ written' = {}
    /\ j' = 0
    /\ i' = 0
    /\ row' = 0
    /\ col' = 0
    /\ startIdx' = 0
    /\ oldStartIdx' = 0
    /\ currentColor' = NoColor
    /\ rowRects' = << >>
    /\ lastRead' = -1
    /\ UNCHANGED <<scale, maxDepth, angle, parVars, castVars, sceneVars>>

RenderNext ==
    \/ RenderEnter
    \/ AssemblePixel
    \/ AssembleDone
    \/ CompressRowStart
    \/ ScanCol
    \/ ScanFault
    \/ ScanDone
    \/ CompressDone

Next ==
    \/ Update
    \/ Close
    \/ RenderNext

Spec == Init /\ [][Next]_vars

(***************************************************************************)
(* Properties of the main loop and of render.                              *)
(***************************************************************************)
RowScanned == pc = "scan" /\ col > Cols(scale)

\* the colour frame assembly left in column c of the row being compressed
RowPixel(c) == framebuffer[row * width + c]

\* the columns of the row at which a maximal run of equal colours starts
RunStarts ==
    {0} \cup {c \in 1 .. Cols(scale) - 1 : RowPixel(c) # RowPixel(c - 1)}

RectsTileRow ==
    /\ Len(rowRects) >= 1
    /\ rowRects[1].x = 0
    /\ rowRects[Len(rowRects)].x + rowRects[Len(rowRects)].w = Cols(scale) * scale
    /\ \A k \in 1 .. Len(rowRects) :
        /\ rowRects[k].w > 0
        /\ rowRects[k].y = row * scale
        /\ rowRects[k].h = scale
    /\ \A k \in 1 .. Len(rowRects) - 1 :
        rowRects[k + 1].x = rowRects[k].x + rowRects[k].w

\* C1: for every scale in {1,2,4,8,16} and every framebuffer content, the
\* rectangles emitted for one row are exactly one per maximal run of
\* equal-coloured columns, and they cover columns 0 .. width/scale-1 (times
\* scale) with no gap and no overlap; N alternating columns give N rectangles.
C1_OneRectanglePerRun ==
    (RowScanned /\ scale \in Scales) =>
        /\ RectsTileRow
        /\ Len(rowRects) = Cardinality(RunStarts)
        /\ {rowRects[k].x : k \in 1 .. Len(rowRects)} = {c * scale : c \in RunStarts}

\* C4: for every scale in {1,2,4,8,16}, when the frame-assembly loop has
\* finished and before the compressor starts, every slot 0 .. size-1 of the
\* framebuffer has been written with a cast_ray result.
C4_FullyOverwritten ==
    (pc = "compress" /\ row = 0 /\ scale \in Scales) =>
        written = DOMAIN framebuffer

\* C5: from scale = 8 and maxDepth = 4, after any sequence of frames and key
\* presses, every call of render receives scale in {1,2,4,8,16} and maxDepth in
\* 1..4; a frame changes scale by at most one halving or doubling and maxDepth
\* by at most 1.
C5_KnobsStayInRange ==
    /\ [](pc = "render" => (scale \in Scales /\ maxDepth \in 1 .. 4))
    /\ [][/\ (scale' = scale \/ scale' = 2 * scale \/ 2 * scale' = scale)
          /\ maxDepth' - maxDepth \in {-1, 0, 1}]_vars

\* render is called at the smallest scale and depth, where LEFT and DOWN are refused
C5_Witness == pc = "render" /\ scale = MinScale /\ maxDepth = MinDepth

\* C7: the compressor decides run boundaries on the tone-mapped colour
\* quantized to 0-255 channels: a new run starts between two adjacent columns
\* of a row if and only if their quantized tone-mapped colours differ.  (Stated
\* for the columns before the last one, where the end of the row plays no part.)
C7_BoundariesOnQuantizedColour ==
    (RowScanned /\ scale \in Scales) =>
        \A c \in 1 .. Cols(scale) - 2 :
            (\E k \in 1 .. Len(rowRects) : rowRects[k].x = c * scale)
                <=> (Quantize(ToneMap(RowPixel(c))) # Quantize(ToneMap(RowPixel(c - 1))))

\* C10: for every scale in {1,2,4,8,16} and every row, every framebuffer index
\* the compressor reads is inside the allocated buffer and is a slot that frame
\* assembly wrote for a pixel of that same row.
C10_ReadsStayInRow ==
    (pc = "scan" /\ scale \in Scales) =>
        /\ lastRead \in DOMAIN framebuffer
        /\ lastRead \in written
        /\ \E c \in 0 .. Cols(scale) - 1 : lastRead = PixelIndex(c, row)

(***************************************************************************)
(* render as a function of its arguments: any int may be passed for scale  *)
(* and maxDepth.                                                           *)
(***************************************************************************)
ArgScales == {-1, 0} \cup Scales
ArgDepths == -1 .. MaxDepthKnob
ApiAngles == {0, 88}

\* size_t: the modulus of the unsigned conversion (2^64 in the build,
\* narrowed here to a width that fits TLC's integers)
SizeModulus == 1073741824

\* the conversion of an int to size_t
ToSizeT(n) == IF n < 0 THEN SizeModulus + n ELSE n

\* depth > maxDepth, with size_t depth and int maxDepth; the variant cuts one level later
DepthExceedsOffByOne(depth, md) == depth > ToSizeT(md) + 1
DepthExceeds(depth, md) == depth > ToSizeT(md)

InitApi ==
    /\ scale \in ArgScales
    /\ maxDepth \in ArgDepths
    /\ angle \in ApiAngles
    /\ pc = "render"
    /\ RenderIdle
    /\ ParIdle
    /\ CastIdle
    /\ SceneIdle

NextApi ==
    \/ RenderDivZero
    \/ RenderBadAlloc
    \/ RenderNext

SpecApi == InitApi /\ [][NextApi]_vars

\* the depths a cast_ray call tree could reach before the stack is exhausted
ProbeDepths == 0 .. 64

\* C3: when render is called with scale <= 0 or maxDepth <= 0 it rejects the
\* call or clamps the value before any framebuffer size or index is computed
\* and before any ray is cast; no division by scale, no buffer access and no
\* cast_ray recursion happens with the invalid value, and a negative maxDepth
\* never lets the check depth > maxDepth stay false for every depth.
C3_InvalidArgumentsRejected ==
    (scale <= 0 \/ maxDepth <= 0) =>
        /\ pc \in {"render", "rejected"}
        /\ pc = "assemble" => \E d \in ProbeDepths : DepthExceeds(d, maxDepth)

(***************************************************************************)
(* The frame-assembly loop under "#pragma omp parallel for": the rows are  *)
(* split into one contiguous chunk per thread (the static schedule), the   *)
(* threads' pixel writes interleave freely, and the loop's barrier comes   *)
(* before the compressor.                                                  *)
(***************************************************************************)
NThreads == 2
Threads == 1 .. NThreads
ParAngles == {88}

ChunkLo(t, s) == ((t - 1) * Rows(s)) \div NThreads
ChunkHi(t, s) == (t * Rows(s)) \div NThreads

ThreadDone(t) == tj[t] >= ChunkHi(t, scale)

InitPar ==
    /\ scale \in Scales
    /\ maxDepth = InitDepth
    /\ angle \in ParAngles
    /\ pc = "render"
    /\ RenderIdle
    /\ ParIdle
    /\ CastIdle
    /\ SceneIdle

\* std::vector<Vec3f> framebuffer((width * height) / scale); then the threads start
RenderEnterPar ==
    /\ pc = "render"
    /\ scale > 0
    /\ framebuffer' = [k \in 0 .. FbSize(scale) - 1 |-> Black]
    /\ written' = {}
    /\ tj' = [t \in Threads |-> ChunkLo(t, scale)]
    /\ ti' = [t \in Threads |-> 0]
    /\ pc' = "parallel"
    /\ UNCHANGED <<scale, maxDepth, angle, j, i, compressVars, castVars, sceneVars>>

\* thread t: framebuffer[i + j * width] = cast_ray(...) for its next pixel
ParPixel(t) ==
    /\ pc = "parallel"
    /\ ~ThreadDone(t)
    /\ framebuffer' = FbWrite(framebuffer, PixelIndex(ti[t], tj[t]),
                              PixelColor(angle, ti[t], tj[t], scale))
    /\ written' = written \cup {PixelIndex(ti[t], tj[t])}
    /\ IF ti[t] + 1 < Cols(scale)
       THEN ti' = [ti EXCEPT ![t] = ti[t] + 1] /\ tj' = tj
       ELSE ti' = [ti EXCEPT ![t] = 0] /\ tj' = [tj EXCEPT ![t] = tj[t] + 1]
    /\ UNCHANGED <<mainVars, j, i, compressVars, castVars, sceneVars>>

\* the barrier at the end of the parallel loop
ParJoin ==
    /\ pc = "parallel"
    /\ \A t \in Threads : ThreadDone(t)
    /\ pc' = "compress"
    /\ row' = 0
    /\ tj' = << >>
    /\ ti' = << >>
    /\ UNCHANGED <<scale, maxDepth, angle, assembleVars, col, startIdx, oldStartIdx,
                   currentColor, rowRects, lastRead, castVars, sceneVars>>

NextPar ==
    \/ RenderEnterPar
    \/ \E t \in Threads : ParPixel(t)
    \/ ParJoin
    \/ CompressRowStart
    \/ ScanCol
    \/ ScanFault
    \/ ScanDone
    \/ CompressDone

SpecPar == InitPar /\ [][NextPar]_vars

\* the framebuffer the sequential loops of render leave: pixel number n of
\* the loop order is pixel (n % Cols, n \div Cols); a slot holds the colour of
\* the last pixel stored in it, or Vec3f() if no pixel was
SeqWriters(k, s) ==
    {n \in 0 .. Cols(s) * Rows(s) - 1 : PixelIndex(n % Cols(s), n \div Cols(s)) = k}

SeqLastWriter(k, s) ==
    CHOOSE n \in SeqWriters(k, s) : \A m \in SeqWriters(k, s) : m <= n

SeqFramebuffer(a, s) ==
    [k \in 0 .. FbSize(s) - 1 |->
        IF SeqWriters(k, s) = {}
        THEN Black
        ELSE PixelColor(a, SeqLastWriter(k, s) % Cols(s), SeqLastWriter(k, s) \div Cols(s), s)]

RECURSIVE PixelsDone(_)
PixelsDone(t) ==
    IF t = 0
    THEN 0
    ELSE (tj[t] - ChunkLo(t, scale)) * Cols(scale) + ti[t] + PixelsDone(t - 1)

\* C9: for every scale in {1,2,4,8,16} the frame-assembly loop writes each
\* pixel (i,j) to a framebuffer index inside the allocated buffer and different
\* from the index of every other pixel; so evaluating the pixels in any
\* interleaving gives the framebuffer of the sequential loop, and the
\* compressor, started only after the last pixel write, sees that buffer.
C9_DisjointWritesAnyOrder ==
    /\ pc \in {"parallel", "compress", "scan"} => written \subseteq DOMAIN framebuffer
    /\ pc = "parallel" => Cardinality(written) = PixelsDone(NThreads)
    /\ pc \in {"compress", "scan"} => Cardinality(written) = Cols(scale) * Rows(scale)
    /\ pc = "compress" => framebuffer = SeqFramebuffer(angle, scale)

\* the compressor scans the last row of a full-resolution frame whose pixels
\* were written by the interleaved threads
C9_Witness ==
    /\ pc = "scan"
    /\ scale = 1
    /\ row = Rows(scale) - 1
    /\ Cardinality(written) = Cols(scale) * Rows(scale)

(***************************************************************************)
(* cast_ray: the call stack of one primary ray.  A frame is one invocation:*)
(* its depth, where it stands (at the depth check, waiting for the         *)
(* reflected ray, waiting for the refracted ray), and how many times it    *)
(* has called scene_intersect and cast_ray so far.  Whether a ray hits     *)
(* the scene is the scene's choice.                                        *)
(***************************************************************************)
NLights == 3

Frame(depth) == [depth |-> depth, at |-> "check", nIntersect |-> 0, nCalls |-> 0]

Top == stack[Len(stack)]
Pop == SubSeq(stack, 1, Len(stack) - 1)
ReplaceTop(f) == [stack EXCEPT ![Len(stack)] = f]

InitCast ==
    /\ scale = InitScale
    /\ maxDepth \in MinDepth .. MaxDepthKnob
    /\ angle = 0
    /\ pc = "cast"
    /\ RenderIdle
    /\ ParIdle
    /\ stack = <<Frame(0)>>
    /\ ret = NoReturn
    /\ SceneIdle

\* if (depth > maxDepth || ...) return Vec3f(0.2, 0.7, 0.8);   the left operand is true
CastDepthCut ==
    /\ stack # << >>
    /\ Top.at = "check"
    /\ DepthExceeds(Top.depth, maxDepth)
    /\ ret' = [depth |-> Top.depth, color |-> "background",
               nIntersect |-> Top.nIntersect, nCalls |-> Top.nCalls]
    /\ stack' = Pop
    /\ UNCHANGED <<mainVars, assembleVars, compressVars, parVars, sceneVars>>

\* if (... || !scene_intersect(orig, dir, spheres, point, N, material)) return background
CastMiss ==
    /\ stack # << >>
    /\ Top.at = "check"
    /\ ~DepthExceeds(Top.depth, maxDepth)
    /\ ret' = [depth |-> Top.depth, color |-> "background",
               nIntersect |-> Top.nIntersect + 1, nCalls |-> Top.nCalls]
    /\ stack' = Pop
    /\ UNCHANGED <<mainVars, assembleVars, compressVars, parVars, sceneVars>>

\* a hit: reflect_color = cast_ray(reflect_orig, reflect_dir, spheres, lights, depth + 1, maxDepth)
CastHit ==
    /\ stack # << >>
    /\ Top.at = "check"
    /\ ~DepthExceeds(Top.depth, maxDepth)
    /\ stack' = Append(ReplaceTop([Top EXCEPT !.at = "reflect",
                                              !.nIntersect = @ + 1,
                                              !.nCalls = @ + 1]),
                       Frame(Top.depth + 1))
    /\ UNCHANGED <<mainVars, assembleVars, compressVars, parVars, ret, sceneVars>>

\* refract_color = cast_ray(refract_orig, refract_dir, spheres, lights, depth + 1, maxDepth)
CastRefract ==
    /\ stack # << >>
    /\ Top.at = "reflect"
    /\ stack' = Append(ReplaceTop([Top EXCEPT !.at = "refract", !.nCalls = @ + 1]),
                       Frame(Top.depth + 1))
    /\ UNCHANGED <<mainVars, assembleVars, compressVars, parVars, ret, sceneVars>>

\* the loop over the lights (one shadow scene_intersect each) and the return of the sum
CastShade ==
    /\ stack # << >>
    /\ Top.at = "refract"
    /\ ret' = [depth |-> Top.depth, color |-> "shaded",
               nIntersect |-> Top.nIntersect + NLights, nCalls |-> Top.nCalls]
    /\ stack' = Pop
    /\ UNCHANGED <<mainVars, assembleVars, compressVars, parVars, sceneVars>>

NextCast ==
    \/ CastDepthCut
    \/ CastMiss
    \/ CastHit
    \/ CastRefract
    \/ CastShade

\* cast_ray runs on one thread: it takes its next step whenever it has one
SpecCast == InitCast /\ [][NextCast]_vars /\ WF_vars(NextCast)

\* C2: for every maxDepth in 1..4 and every scene, a cast_ray invocation with
\* depth > maxDepth returns the background colour without calling
\* scene_intersect or cast_ray again; hence every cast_ray call started at
\* depth 0 terminates and no invocation in its call tree has depth greater
\* than maxDepth+1.
C2_DepthCapEnforced ==
    /\ [](ret.depth > maxDepth =>
            (ret.color = "background" /\ ret.nIntersect = 0 /\ ret.nCalls = 0))
    /\ [](\A k \in 1 .. Len(stack) : stack[k].depth <= maxDepth + 1)
    /\ <>(stack = << >>)

\* an invocation one level below the cap has returned, at the largest cap
C2_Witness ==
    /\ pc = "cast"
    /\ maxDepth = MaxDepthKnob
    /\ ret.depth = maxDepth + 1
    /\ ret.color = "background"

(***************************************************************************)
(* scene_intersect.  A query is one ray against a list of spheres and the  *)
(* checkerboard.  What the ray's geometry decides is given with the query: *)
(* for each sphere whether d2 > radius2 and the values of tca and thc, for *)
(* the plane whether fabs(dir.y) > 1e-3, the distance d and the point's x  *)
(* and z.  A point of the ray is named by its distance from the origin, a  *)
(* sphere's normal by the point and the sphere's centre.                   *)
(***************************************************************************)
MaxSpheres == 2

FltMax == 1000000
Cutoff == 1000

\* MMaterial ivory(1.0, Vec4f(0.6, 0.3, 0.1, 0.0), Vec3f(0.4, 0.4, 0.3), 50.);
Ivory ==
    [refractive_index |-> 1000, albedo |-> <<600, 300, 100, 0>>,
     diffuse_color |-> <<400, 400, 300>>, specular_exponent |-> 50]

\* MMaterial glass(1.5, Vec4f(0.0, 0.5, 0.1, 0.8), Vec3f(0.6, 0.7, 0.8), 125.);
Glass ==
    [refractive_index |-> 1500, albedo |-> <<0, 500, 100, 800>>,
     diffuse_color |-> <<600, 700, 800>>, specular_exponent |-> 125]

Materials == {Ivory, Glass}

\* the ray against one sphere: off the sphere, behind the origin, origin
\* inside (t0 = 3), in front (t0 = 1), in front (t0 = 3), beyond the cutoff
SphereRayCases ==
    {[d2gt |-> TRUE, tca |-> 2, thc |-> 0],
     [d2gt |-> FALSE, tca |-> -2, thc |-> 1],
     [d2gt |-> FALSE, tca |-> 1, thc |-> 2],
     [d2gt |-> FALSE, tca |-> 2, thc |-> 1],
     [d2gt |-> FALSE, tca |-> 4, thc |-> 1],
     [d2gt |-> FALSE, tca |-> 1001, thc |-> 1]}

\* the ray against the plane: too flat, inside the board on either tile colour,
\* beside the board, inside and farther, behind the origin
PlaneCases ==
    {[steep |-> FALSE, d |-> 2, x |-> 0, z |-> -20],
     [steep |-> TRUE, d |-> 2, x |-> 0, z |-> -20],
     [steep |-> TRUE, d |-> 2, x |-> 2, z |-> -20],
     [steep |-> TRUE, d |-> 2, x |-> 12, z |-> -20],
     [steep |-> TRUE, d |-> 5, x |-> 1, z |-> -15],
     [steep |-> TRUE, d |-> -2, x |-> 0, z |-> -20]}

\* Sphere::ray_intersect, from the test of d2 on
RayIntersect(sp) ==
    IF sp.d2gt
    THEN [hit |-> FALSE, t0 |-> 0]
    ELSE LET near == sp.tca - sp.thc
             far == sp.tca + sp.thc
             t0 == IF near < 0 THEN far ELSE near
         IN  [hit |-> ~(t0 < 0), t0 |-> t0]

\* ... && dist_i < spheres_dist; the variant also replaces an equally near hit
NearerOrEqual(dist_i, spheres_dist) == dist_i <= spheres_dist
Nearer(dist_i, spheres_dist) == dist_i < spheres_dist

\* for (size_t i = 0; i < spheres.size(); i++) { ... }, from sphere k on
RECURSIVE ScanSpheres(_, _, _)
ScanSpheres(list, k, acc) ==
    IF k > Len(list)
    THEN acc
    ELSE LET r == RayIntersect(list[k])
         IN  IF r.hit /\ Nearer(r.t0, acc.spheres_dist)
             THEN ScanSpheres(list, k + 1,
                      [acc EXCEPT !.spheres_dist = r.t0,
                                  !.hit = r.t0,
                                  !.N = [kind |-> "sphere", center |-> list[k].center,
                                         t |-> r.t0],
                                  !.material = list[k].material])
             ELSE ScanSpheres(list, k + 1, acc)

\* int(v), v a number of halves: the conversion truncates toward zero
IntOfHalves(n) == IF n >= 0 THEN n \div 2 ELSE -((-n) \div 2)

\* (int(.5 * hit.x + 1000) + int(.5 * hit.z)) & 1 ? Vec3f(1, 1, 1) : Vec3f(1, .7, .3);  then * .3
TileColor(x, z) ==
    IF (IntOfHalves(x + 2000) + IntOfHalves(z)) % 2 = 1 THEN TileWhite ELSE TileOrange

PlaneAccepted(pl, spheres_dist) ==
    /\ pl.steep
    /\ pl.d > 0
    /\ Abs(pl.x) < 10
    /\ pl.z < -10
    /\ pl.z > -30
    /\ pl.d < spheres_dist

Min2(a, b) == IF a < b THEN a ELSE b

\* scene_intersect(orig, dir, spheres, hit, N, material), material the caller's MMaterial()
SceneIntersect(list, pl) ==
    LET acc == ScanSpheres(list, 1,
                   [ret |-> FALSE, hit |-> NoPoint, N |-> NoNormal,
                    material |-> DefaultMaterial,
                    spheres_dist |-> FltMax, checkerboard_dist |-> FltMax])
        out == IF PlaneAccepted(pl, acc.spheres_dist)
               THEN [acc EXCEPT !.checkerboard_dist = pl.d,
                                !.hit = pl.d,
                                !.N = [kind |-> "up", center |-> 0, t |-> 0],
                                !.material = [acc.material EXCEPT
                                                 !.diffuse_color = TileColor(pl.x, pl.z)]]
               ELSE acc
    IN  [out EXCEPT !.ret = Min2(out.spheres_dist, out.checkerboard_dist) < Cutoff]

SphereLists ==
    UNION {{[k \in 1 .. n |-> [center |-> k, material |-> m[k],
                                d2gt |-> c[k].d2gt, tca |-> c[k].tca, thc |-> c[k].thc]] :
                c \in [1 .. n -> SphereRayCases], m \in [1 .. n -> Materials]} :
           n \in 0 .. MaxSpheres}

Reorderings(list) ==
    {[k \in 1 .. Len(list) |-> list[p[k]]] :
        p \in {q \in [1 .. Len(list) -> 1 .. Len(list)] :
                  \A a, b \in 1 .. Len(list) : q[a] = q[b] => a = b}}

InitScene ==
    /\ scale = InitScale
    /\ maxDepth = InitDepth
    /\ angle = 0
    /\ pc = "ray"
    /\ RenderIdle
    /\ ParIdle
    /\ CastIdle
    /\ spheres \in SphereLists
    /\ permuted \in Reorderings(spheres)
    /\ plane \in PlaneCases
    /\ res = NoResult
    /\ resPerm = NoResult

\* the query on the list as given
Intersect ==
    /\ pc = "ray"
    /\ res' = SceneIntersect(spheres, plane)
    /\ pc' = "queried"
    /\ UNCHANGED <<scale, maxDepth, angle, assembleVars, compressVars, parVars, castVars,
                   spheres, plane, permuted, resPerm>>

\* the same query on the reordered list
IntersectReordered ==
    /\ pc = "queried"
    /\ resPerm' = SceneIntersect(permuted, plane)
    /\ pc' = "compared"
    /\ UNCHANGED <<scale, maxDepth, angle, assembleVars, compressVars, parVars, castVars,
                   spheres, plane, permuted, res>>

NextScene ==
    \/ Intersect
    \/ IntersectReordered

SpecScene == InitScene /\ [][NextScene]_vars

\* the spheres of the list the ray intersects at the least distance
Intersected(list) == {k \in 1 .. Len(list) : RayIntersect(list[k]).hit}
NearestSpheres(list) ==
    {k \in Intersected(list) :
        \A m \in Intersected(list) : RayIntersect(list[k]).t0 <= RayIntersect(list[m]).t0}

FirstNearest(list) ==
    CHOOSE k \in NearestSpheres(list) : \A m \in NearestSpheres(list) : k <= m

SphereWon(r) == r.ret /\ r.checkerboard_dist = FltMax
PlaneWon(r) == r.checkerboard_dist < FltMax

WinnerIsFirstNearest(r, list) ==
    SphereWon(r) =>
        /\ NearestSpheres(list) # {}
        /\ r.material = list[FirstNearest(list)].material
        /\ r.N.center = list[FirstNearest(list)].center
        /\ r.hit = RayIntersect(list[FirstNearest(list)]).t0

\* C6 as stated: for any ray and any finite list of spheres, scene_intersect
\* returns the same hit-or-miss result and, on a hit, the same hit point,
\* normal and material for every permutation of the list, also when two
\* spheres with different materials are intersected at the same distance.
C6_SameForEveryOrder ==
    pc = "compared" =>
        /\ res.ret = resPerm.ret
        /\ res.ret => (/\ res.hit = resPerm.hit
                       /\ res.N = resPerm.N
                       /\ res.material = resPerm.material)

\* C6 as the code has it: the hit-or-miss result and the hit point are the
\* same for every permutation of the list; when a sphere wins, normal and
\* material are those of the first sphere of the list at the least
\* intersection distance, so normal and material are the same for every
\* permutation whenever one sphere alone is at that distance.
C6_SameUpToTies ==
    pc = "compared" =>
        /\ res.ret = resPerm.ret
        /\ res.ret => res.hit = resPerm.hit
        /\ WinnerIsFirstNearest(res, spheres)
        /\ WinnerIsFirstNearest(resPerm, permuted)
        /\ Cardinality(NearestSpheres(spheres)) <= 1 =>
              (res.N = resPerm.N /\ res.material = resPerm.material)

\* two spheres of different materials at the same least distance, queried in both orders
C6_Witness ==
    /\ pc = "compared"
    /\ SphereWon(res)
    /\ Cardinality(NearestSpheres(spheres)) = 2
    /\ res.material # resPerm.material

\* C8: whenever the checkerboard plane is the winning hit, the material
\* returned is the default material with only diffuse_color replaced by the
\* tile colour, also when the ray intersects spheres farther away than the plane.
C8_PlaneMaterialIsDefault ==
    (pc = "queried" /\ PlaneWon(res)) =>
        res.material = [DefaultMaterial EXCEPT !.diffuse_color = TileColor(plane.x, plane.z)]

====
